---- MODULE Spec2Model ----
(***************************************************************************)
(* A model of the luhn crate (src/src/lib.rs): the Luhn mod N checksum     *)
(* engine.  A character is its Unicode scalar value, a string is the       *)
(* sequence of its characters, and the byte length of a string (what       *)
(* str::len returns) is the sum of the UTF-8 widths of its characters.     *)
(* Vectors are 1-based sequences here; codepoints stay 0-based as in the   *)
(* code, so the character of codepoint cp is alphabet[cp + 1].             *)
(***************************************************************************)
EXTENDS Integers, Sequences, FiniteSets, TLC

VARIABLES arg, luhn, op, s, check, result

vars == <<arg, luhn, op, s, check, result>>

----------------------------------------------------------------------------
(* Bounds of the model. *)

\* longest alphabet the constructor is given (the test alphabets aside)
MaxAlpha == 4

\* longest input string the operations are given (the test inputs aside)
MaxLen == 3

\* 'a', 'b', 'c' (one byte each in UTF-8) and U+00E9 (two bytes)
Pool == {97, 98, 99, 233}

RECURSIVE SeqsUpTo(_, _)
SeqsUpTo(S, n) ==
    IF n = 0 THEN {<<>>}
    ELSE LET shorter == SeqsUpTo(S, n - 1)
         IN  shorter \cup {Append(q, x) : q \in {r \in shorter : Len(r) = n - 1}, x \in S}

\* the strings of the crate's tests
Str_abcdef == <<97, 98, 99, 100, 101, 102>>
Str_fedcba == <<102, 101, 100, 99, 98, 97>>
Str_digits == <<48, 49, 50, 51, 52, 53, 54, 55, 56, 57>>
Str_stigid == <<57, 56, 55, 54, 53, 52, 51, 50, 49, 48>>
Str_abcdea == <<97, 98, 99, 100, 101, 97>>
Str_7992739871 == <<55, 57, 57, 50, 55, 51, 57, 56, 55, 49>>
Str_012345 == <<48, 49, 50, 51, 52, 53>>
Str_abcdefe == <<97, 98, 99, 100, 101, 102, 101>>
Str_abcdefd == <<97, 98, 99, 100, 101, 102, 100>>
Str_aabbccdd == <<97, 97, 98, 98, 99, 99, 100, 100>>

TestAlphabets == {Str_abcdef, Str_fedcba, Str_digits, Str_stigid, Str_abcdea}

TestInputs == {Str_abcdef, Str_7992739871, Str_012345, Str_abcdefe, Str_abcdefd,
               Str_aabbccdd}

AlphabetArgs == SeqsUpTo(Pool, MaxAlpha) \cup TestAlphabets

Inputs == SeqsUpTo(Pool, MaxLen) \cup TestInputs

\* check characters handed to validate_with: the pool, and 'd' and 'e' of the tests
Checks == Pool \cup {100, 101}

----------------------------------------------------------------------------
(* Results: Result<T, LuhnError>, and a panic.                             *)

Ok(v) == [tag |-> "Ok", val |-> v]

NotUnique(ch) == [tag |-> "NotUnique", val |-> ch]

InvalidCharacter(ch) == [tag |-> "InvalidCharacter", val |-> ch]

EmptyString == [tag |-> "EmptyString", val |-> 0]

\* an index out of the bounds of a Vec panics
Panic == [tag |-> "Panic", val |-> 0]

NotBuilt == [tag |-> "NotBuilt", val |-> 0]

IsOk(r) == r.tag = "Ok"

\* equality of two results: the same variant carrying the same value
Same(r1, r2) == r1.tag = r2.tag /\ r1.val = r2.val

----------------------------------------------------------------------------
(* Strings.                                                                *)

\* char::len_utf8
Utf8Len(ch) ==
    IF ch < 128 THEN 1
    ELSE IF ch < 2048 THEN 2
    ELSE IF ch < 65536 THEN 3
    ELSE 4

\* str::len: the length of the string in bytes
RECURSIVE ByteLen(_)
ByteLen(str) ==
    IF str = <<>> THEN 0 ELSE Utf8Len(Head(str)) + ByteLen(Tail(str))

\* the byte offset char_indices gives the i-th character (i from 1)
ByteIndex(str, i) == ByteLen(SubSeq(str, 1, i - 1))

\* s.char_indices().take_while(|(index, _)| index < s.len() - 1).map(|(_, ch)| ch)
RECURSIVE TakeHead(_, _)
TakeHead(str, i) ==
    IF i > Len(str) THEN <<>>
    ELSE IF ByteIndex(str, i) < ByteLen(str) - 1
         THEN <<str[i]>> \o TakeHead(str, i + 1)
         ELSE <<>>

\* s.chars().last().unwrap()
LastChar(str) == str[Len(str)]

----------------------------------------------------------------------------
(* Construction.                                                           *)

RECURSIVE InsertSorted(_, _)
InsertSorted(v, ch) ==
    IF v = <<>> THEN <<ch>>
    ELSE IF ch < Head(v) THEN <<ch>> \o v
    ELSE <<Head(v)>> \o InsertSorted(Tail(v), ch)

RECURSIVE SortAscending(_)
SortAscending(v) ==
    IF v = <<>> THEN <<>> ELSE InsertSorted(SortAscending(Tail(v)), Head(v))

Reverse(v) == [i \in 1..Len(v) |-> v[Len(v) + 1 - i]]

\* a constructor that keeps the caller's order
SortNone(v) == v

\* a constructor that sorts the wrong way round
SortDescending(v) == Reverse(SortAscending(v))

\* chars.sort()
SortChars(v) == SortAscending(v)

\* the uniqueness scan: the first character already in the set
RECURSIVE ScanUnique(_, _, _)
ScanUnique(chars, i, charset) ==
    IF i > Len(chars) THEN Ok(chars)
    ELSE IF chars[i] \in charset THEN NotUnique(chars[i])
    ELSE ScanUnique(chars, i + 1, charset \cup {chars[i]})

\* Luhn::new; Ok carries the engine's alphabet field
LuhnNew(alphabet) ==
    IF Len(alphabet) < 1 THEN EmptyString
    ELSE ScanUnique(SortChars(alphabet), 1, {})

----------------------------------------------------------------------------
(* Codepoints.                                                             *)

\* slice::binary_search over [left, right), 0-based; Ok(index) or the error
RECURSIVE BinarySearch(_, _, _, _)
BinarySearch(v, ch, left, right) ==
    IF left >= right THEN InvalidCharacter(ch)
    ELSE LET mid == left + ((right - left) \div 2)
         IN  IF v[mid + 1] < ch THEN BinarySearch(v, ch, mid + 1, right)
             ELSE IF v[mid + 1] > ch THEN BinarySearch(v, ch, left, mid)
             ELSE Ok(mid)

\* a lookup that takes the insertion point of a missing character for its index
codepoint_from_character_lenient(alphabet, ch) ==
    LET found == BinarySearch(alphabet, ch, 0, Len(alphabet))
    IN  IF IsOk(found) THEN found ELSE Ok(0)

codepoint_from_character(alphabet, ch) == BinarySearch(alphabet, ch, 0, Len(alphabet))

\* self.alphabet[cp]
character_from_codepoint(alphabet, cp) ==
    IF cp < Len(alphabet) THEN Ok(alphabet[cp + 1]) ELSE Panic

----------------------------------------------------------------------------
(* generate.                                                               *)

\* a factor that is never toggled
ToggleFactorStuck(factor) == factor

\* factor = if factor == 2 { 1 } else { 2 }
ToggleFactor(factor) == IF factor = 2 THEN 1 ELSE 2

\* addend = (addend / n) + (addend % n)
ReduceAddend(addend, n) == (addend \div n) + (addend % n)

\* the check codepoint without the final reduction
CheckCodepointNoMod(sum, n) == n - (sum % n)

\* remainder = sum % n; check_codepoint = (n - remainder) % n
CheckCodepoint(sum, n) == (n - (sum % n)) % n

\* the for loop of generate, from the i-th character on: Ok(sum) or the error
RECURSIVE GenerateLoop(_, _, _, _, _)
GenerateLoop(alphabet, str, i, factor, sum) ==
    IF i > Len(str) THEN Ok(sum)
    ELSE LET cp == codepoint_from_character(alphabet, str[i])
         IN  IF ~IsOk(cp) THEN cp
             ELSE GenerateLoop(alphabet, str, i + 1, ToggleFactor(factor),
                               sum + ReduceAddend(factor * cp.val, Len(alphabet)))

generate(alphabet, str) ==
    IF ByteLen(str) = 0 THEN EmptyString
    ELSE LET sum == GenerateLoop(alphabet, str, 1, 1, 0)
         IN  IF ~IsOk(sum) THEN sum
             ELSE character_from_codepoint(alphabet,
                                           CheckCodepoint(sum.val, Len(alphabet)))

----------------------------------------------------------------------------
(* validate and validate_with.                                             *)

validate(alphabet, str) ==
    IF ByteLen(str) <= 1 THEN EmptyString
    ELSE LET head == TakeHead(str, 1)
             last == LastChar(str)
             expected == generate(alphabet, head)
         IN  IF ~IsOk(expected) THEN expected ELSE Ok(last = expected.val)

validate_with(alphabet, str, ch) ==
    IF ByteLen(str) <= 1 THEN EmptyString
    ELSE LET expected == generate(alphabet, str)
         IN  IF ~IsOk(expected) THEN expected ELSE Ok(ch = expected.val)

----------------------------------------------------------------------------
(* The state machine: a caller constructs an engine from arg, then calls   *)
(* its operations any number of times, one call at a time; op, s and check *)
(* are the call in hand and result is what it returned, until the caller   *)
(* lets go of the result and the engine is idle again.                     *)

Idle == op \in {"new", "idle"}

Init ==
    /\ arg \in AlphabetArgs
    /\ luhn = NotBuilt
    /\ op = "none"
    /\ s = <<>>
    /\ check = 0
    /\ result = NotBuilt

New ==
    /\ luhn.tag = "NotBuilt"
    /\ luhn' = LuhnNew(arg)
    /\ op' = "new"
    /\ result' = luhn'
    /\ UNCHANGED <<arg, s, check>>

Generate ==
    /\ IsOk(luhn)
    /\ Idle
    /\ \E str \in Inputs :
        /\ s' = str
        /\ result' = generate(luhn.val, str)
    /\ op' = "generate"
    /\ check' = 0
    /\ UNCHANGED <<arg, luhn>>

Validate ==
    /\ IsOk(luhn)
    /\ Idle
    /\ \E str \in Inputs :
        /\ s' = str
        /\ result' = validate(luhn.val, str)
    /\ op' = "validate"
    /\ check' = 0
    /\ UNCHANGED <<arg, luhn>>

ValidateWith ==
    /\ IsOk(luhn)
    /\ Idle
    /\ \E str \in Inputs, ch \in Checks :
        /\ s' = str
        /\ check' = ch
        /\ result' = validate_with(luhn.val, str, ch)
    /\ op' = "validate_with"
    /\ UNCHANGED <<arg, luhn>>

\* the caller is done with the result of the call
Return ==
    /\ op \in {"generate", "validate", "validate_with"}
    /\ op' = "idle"
    /\ s' = <<>>
    /\ check' = 0
    /\ result' = luhn
    /\ UNCHANGED <<arg, luhn>>

Next == New \/ Generate \/ Validate \/ ValidateWith \/ Return

Spec == Init /\ [][Next]_vars

----------------------------------------------------------------------------
(* What the properties are stated with: the caller's view of the alphabet  *)
(* as a set of characters, with no reference to how the engine stores it.  *)

Range(f) == {f[i] : i \in DOMAIN f}

Min(S) == CHOOSE x \in S : \A y \in S : x <= y

\* the zero-based position of ch among the characters of a, in character order
RankOf(a, ch) == Cardinality({x \in Range(a) : x < ch})

\* the character of a that has zero-based position k in character order
CharAtRank(a, k) == CHOOSE x \in Range(a) : RankOf(a, x) = k

\* a non-empty payload all of whose characters are in the alphabet a
ValidPayload(a, str) == str # <<>> /\ \A i \in DOMAIN str : str[i] \in Range(a)

\* the first character of str, left to right, that is not in the alphabet a
FirstInvalid(a, str) == str[Min({i \in DOMAIN str : str[i] \notin Range(a)})]

HasRepeat(a) == \E i, j \in DOMAIN a : j < i /\ a[i] = a[j]

\* the first character, scanning a as given, that occurred earlier in a
FirstDuplicate(a) == a[Min({i \in DOMAIN a : \E j \in 1..(i - 1) : a[j] = a[i]})]

\* the least, in character order, of the characters a repeats
LeastRepeated(a) == Min({a[i] : i \in {k \in DOMAIN a : \E j \in 1..(k - 1) : a[j] = a[k]}})

\* the orderings of a: all of them, or a and its reverse when a is a long test alphabet
Orderings(a) ==
    IF Len(a) <= MaxAlpha
    THEN {[i \in 1..Len(a) |-> a[p[i]]] : p \in Permutations(1..Len(a))}
    ELSE {a, Reverse(a)}

Called == op \in {"generate", "validate", "validate_with"}

\* what the call in hand returns on an engine whose alphabet field is alphabet
CallOn(alphabet) ==
    CASE op = "generate" -> generate(alphabet, s)
      [] op = "validate" -> validate(alphabet, s)
      [] op = "validate_with" -> validate_with(alphabet, s, check)

\* the sum of the reduced addends with the factor 1 on the 1st, 3rd, ... character
RECURSIVE SumLeftToRight(_, _, _)
SumLeftToRight(a, str, i) ==
    IF i > Len(str) THEN 0
    ELSE LET f == IF i % 2 = 1 THEN 1 ELSE 2
             c == RankOf(a, str[i])
             n == Cardinality(Range(a))
         IN  ((f * c) \div n) + ((f * c) % n) + SumLeftToRight(a, str, i + 1)

\* the reference Luhn mod N sum: right to left, the factor 2 on the rightmost character
RECURSIVE SumRightToLeft(_, _, _, _)
SumRightToLeft(a, str, i, factor) ==
    IF i < 1 THEN 0
    ELSE LET c == RankOf(a, str[i])
             n == Cardinality(Range(a))
         IN  ((factor * c) \div n) + ((factor * c) % n)
             + SumRightToLeft(a, str, i - 1, 3 - factor)

CheckCharOf(a, sum) ==
    LET n == Cardinality(Range(a)) IN CharAtRank(a, (n - (sum % n)) % n)

----------------------------------------------------------------------------
(* The properties.                                                         *)

\* C1: round trip. For every engine and every non-empty payload s over its
\* alphabet (one-character payloads included), with c = generate(s),
\* validate(s followed by c) and validate_with(s, c) both return true.
C1_RoundTrip ==
    (op = "generate" /\ ValidPayload(arg, s) /\ IsOk(result)) =>
        /\ Same(validate(luhn.val, Append(s, result.val)), Ok(TRUE))
        /\ Same(validate_with(luhn.val, s, result.val), Ok(TRUE))

\* C2: generate returns the character at sorted position (n - (S mod n)) mod n,
\* S being the left-to-right sum of (f*c) div n + (f*c) mod n with f = 1 on the
\* 1st, 3rd, ... character and 2 on the 2nd, 4th, ...; alphabet "abcdef" with
\* payload "abcdef" gives 'e', alphabet "0123456789" with "7992739871" gives '3'.
C2_GenerateFormula ==
    /\ (op = "generate" /\ ValidPayload(arg, s)) =>
           Same(result, Ok(CheckCharOf(arg, SumLeftToRight(arg, s, 1))))
    /\ (op = "generate" /\ arg = Str_abcdef /\ s = Str_abcdef) => Same(result, Ok(101))
    /\ (op = "generate" /\ arg = Str_digits /\ s = Str_7992739871) => Same(result, Ok(51))

C2_Witness ==
    /\ op = "generate"
    /\ arg = Str_digits
    /\ s = Str_7992739871
    /\ Same(result, Ok(51))

\* C3: an engine constructed from any other ordering of the same distinct
\* characters returns, for the call in hand (generate, validate or
\* validate_with on the same input and check character), the same value or
\* the same error.
C3_OrderIrrelevant ==
    (Called /\ IsOk(luhn)) =>
        \A a2 \in Orderings(arg) :
            /\ IsOk(LuhnNew(a2))
            /\ Same(CallOn(LuhnNew(a2).val), result)

C3_Witness ==
    /\ op = "validate"
    /\ Len(arg) = MaxAlpha
    /\ arg # SortAscending(arg)
    /\ Same(result, Ok(TRUE))

\* C4 as stated: an alphabet with a repeated character is refused with the
\* duplicate-character error carrying the first duplicate met while scanning
\* the alphabet in the order the caller gave it.
C4_FirstDuplicateInGivenOrder ==
    (luhn.tag # "NotBuilt" /\ HasRepeat(arg)) => Same(luhn, NotUnique(FirstDuplicate(arg)))

\* C4 as amended: an alphabet with a repeated character is refused with the
\* duplicate-character error carrying the least, in character order, of the
\* characters that occur more than once, also when several are repeated.
C4_LeastRepeated ==
    (luhn.tag # "NotBuilt" /\ HasRepeat(arg)) => Same(luhn, NotUnique(LeastRepeated(arg)))

C4_Witness ==
    /\ luhn.tag # "NotBuilt"
    /\ HasRepeat(arg)
    /\ FirstDuplicate(arg) # LeastRepeated(arg)
    /\ Same(luhn, NotUnique(LeastRepeated(arg)))

\* C5: construction succeeds for every non-empty alphabet of distinct
\* characters, and on every non-empty payload over the alphabet generate
\* succeeds, its check position is in 0..n-1 and the character it returns is
\* in the alphabet.
C5_GenerateTotal ==
    /\ (luhn.tag # "NotBuilt" /\ arg # <<>> /\ ~HasRepeat(arg)) =>
           (IsOk(luhn) /\ Range(luhn.val) = Range(arg))
    /\ (op = "generate" /\ ValidPayload(arg, s)) =>
           /\ IsOk(GenerateLoop(luhn.val, s, 1, 1, 0))
           /\ CheckCodepoint(GenerateLoop(luhn.val, s, 1, 1, 0).val, Len(luhn.val))
                  \in 0..(Len(luhn.val) - 1)
           /\ IsOk(result)
           /\ result.val \in Range(arg)

C5_Witness ==
    /\ op = "generate"
    /\ Len(arg) = 1
    /\ Len(s) > Len(arg)
    /\ IsOk(result)
    /\ result.val \in Range(arg)

\* C6: for every input of at least two characters, of whatever byte width,
\* validate takes head = all characters but the last and last = the final
\* character, and returns generate(head)'s error, or true iff last is the
\* character generate(head) returns.
C6_ValidateSplitsLast ==
    (op = "validate" /\ Len(s) >= 2) =>
        LET head == SubSeq(s, 1, Len(s) - 1)
            expected == generate(luhn.val, head)
        IN  Same(result, IF IsOk(expected) THEN Ok(s[Len(s)] = expected.val) ELSE expected)

\* C7 as stated: an input long enough to be processed (one character for
\* generate, two for validate and validate_with) that holds a character
\* outside the alphabet at any position, the last one of a validate input
\* included, gets the invalid-character error carrying the first such
\* character.
C7_NoPartialSuccess ==
    (/\ Called
     /\ Len(s) >= (IF op = "generate" THEN 1 ELSE 2)
     /\ \E i \in DOMAIN s : s[i] \notin Range(arg)) =>
        Same(result, InvalidCharacter(FirstInvalid(arg, s)))

\* C7 as amended: the same, for a character outside the alphabet at any
\* position of a generate or validate_with input and at any position but the
\* last of a validate input.
C7_InvalidInPayload ==
    (/\ Called
     /\ Len(s) >= (IF op = "generate" THEN 1 ELSE 2)
     /\ \E i \in DOMAIN s :
            /\ s[i] \notin Range(arg)
            /\ op = "validate" => i < Len(s)) =>
        Same(result, InvalidCharacter(FirstInvalid(arg, s)))

C7_Witness ==
    /\ op = "validate"
    /\ Len(s) = MaxLen
    /\ s[1] \in Range(arg)
    /\ s[2] \notin Range(arg)
    /\ s[Len(s)] \notin Range(arg)
    /\ Same(result, InvalidCharacter(s[2]))

\* C8: generate gets the empty-input error exactly when its input has no
\* character; validate and validate_with get it whenever their input has at
\* most one character, of any byte width and in the alphabet or not.
C8_EmptyInput ==
    /\ op = "generate" => (result.tag = "EmptyString" <=> Len(s) = 0)
    /\ (op \in {"validate", "validate_with"} /\ Len(s) <= 1) => result.tag = "EmptyString"

\* C9: on every non-empty valid payload generate returns what the reference
\* Luhn mod N procedure returns, which scans right to left with the factor 2
\* on the rightmost character and 1, 2, 1, ... to its left.
C9_RightmostFactorTwo ==
    (op = "generate" /\ ValidPayload(arg, s)) =>
        Same(result, Ok(CheckCharOf(arg, SumRightToLeft(arg, s, Len(s), 2))))

\* C10: when the alphabet size is even and c = generate(s), replacing any one
\* character of s by another character of the alphabet gives a payload whose
\* check character is not c, and validate of that payload followed by c
\* returns false.
C10_SubstitutionDetected ==
    (op = "generate" /\ ValidPayload(arg, s) /\ IsOk(result) /\ Len(luhn.val) % 2 = 0) =>
        \A i \in DOMAIN s : \A x \in Range(arg) \ {s[i]} :
            LET p2 == [s EXCEPT ![i] = x]
            IN  /\ ~Same(generate(luhn.val, p2), result)
                /\ Same(validate(luhn.val, Append(p2, result.val)), Ok(FALSE))

====
